---- MODULE Spec2Model ----
(***************************************************************************)
(* Burnout scoring and task prioritisation of the team-management backend. *)
(*                                                                         *)
(*   routes/burnout  (src/unnamed/part_004)      GET /, GET /team/:id      *)
(*   routes/burnout  (src/unnamed/part_004)      GET /team/:id/hours       *)
(*   routes/tasks    (src/backend/routes/tasks.js)  POST /smart-sort       *)
(*   models/burnoutScore (src/backend/models/project.js, lines 18-32)      *)
(*                                                                         *)
(* Every await of a handler is one step of the request that runs it, so    *)
(* requests can interleave exactly where the event loop lets them.         *)
(* Times are minutes, instants counted from an epoch at UTC midnight; tz   *)
(* is the offset of the server's local time from UTC.  A JavaScript value  *)
(* that may be undefined, a number or a non-numeric string is a record     *)
(* [kind, num].                                                            *)
(***************************************************************************)
EXTENDS Integers, Sequences, FiniteSets, TLC

VARIABLES now, strictQuery, scores, githubActivity, tasks, req, sreq, probe,
          tz, hreq, tres, notifications, nres

vars == <<now, strictQuery, scores, githubActivity, tasks, req, sreq, probe,
         tz, hreq, tres, notifications, nres>>

(***************************************************************************)
(* Bounds of the model.                                                    *)
(***************************************************************************)
MaxTime == 90
TickStep == 45
MaxScores == 2
MaxCommits == 51
MaxOpen == 9
MaxOverdue == 6
MaxCompleted == 21
MaxSortTasks == 3
SortNow == 120
MaxHoursTasks == 2
MaxOrderTasks == 3
MaxTasks == 1
MaxNotifications == 3

(***************************************************************************)
(* Universe: users, projects, managers, request slots.                     *)
(***************************************************************************)
Users == {"u1", "u2"}
NoUser == "none"
Projects == {"p1", "p2"}
\* the project scopes the requests of the model ask for
ScopedProjects == {"p1"}
NoProject == "none"
Managers == {"m1", "m2", "m3"}
Procs == {1, 2}

(***************************************************************************)
(* JavaScript values.                                                      *)
(***************************************************************************)
Undefined == [kind |-> "undefined", num |-> 0]
NotANumber == [kind |-> "NaN", num |-> 0]
Str == [kind |-> "string", num |-> 0]
Num(n) == [kind |-> "number", num |-> n]

\* v || 0 for a score value
OrZero(v) == IF v.kind = "number" THEN v.num ELSE 0

NoDate == -1

SeqSum(s) ==
  LET RECURSIVE Go(_)
      Go(i) == IF i > Len(s) THEN 0 ELSE s[i] + Go(i + 1)
  IN Go(1)

(***************************************************************************)
(* Candidate models of the burnout route, in order of preference.          *)
(***************************************************************************)
AVAILABLE_MODELS ==
  << "gemini-2.0-flash-exp", "gemini-exp-1206",
     "gemini-2.0-flash-thinking-exp-1219", "gemini-2.5-flash",
     "gemini-2.5-pro", "gemini-1.5-flash", "gemini-1.5-pro" >>

\* createdAt: { $gte: new Date(Date.now() - 60 * 60 * 1000) }
FreshWindow == 60

(***************************************************************************)
(* Team collection: Team.find({ managerId }).  m1 manages two teams that   *)
(* share u2, m2 manages no team, m3 manages a team without members.        *)
(***************************************************************************)
Teams ==
  << [managerId |-> "m1", members |-> << "u1", "u2" >>],
     [managerId |-> "m1", members |-> << "u2" >>],
     [managerId |-> "m3", members |-> << >>] >>

(***************************************************************************)
(* Signal aggregation: calculateBurnoutWithAI, lines 28-55.                *)
(***************************************************************************)
\* GithubActivity.findOne(filter).sort({ lastSynced: -1 })
LatestActivity(u, p) ==
  LET S == {a \in githubActivity :
              a.userId = u /\ (p # NoProject => a.projectId = p)}
  IN IF S = {} THEN [found |-> FALSE, commits |-> 0, pullRequests |-> 0]
     ELSE LET a == CHOOSE x \in S : \A y \in S : y.lastSynced <= x.lastSynced
          IN [found |-> TRUE, commits |-> a.commits,
              pullRequests |-> a.pullRequests]

\* Task.find({ assignedTo: userId [, projectId] })
TasksOf(u, p) ==
  {i \in DOMAIN tasks :
     tasks[i].assignedTo = u /\ (p # NoProject => tasks[i].projectId = p)}

\* new Date(t.dueDate) < new Date() && t.status !== 'done'
\* (a missing dueDate gives an Invalid Date, which compares false)
OverdueForScore(t) == t.dueDate # NoDate /\ t.dueDate < now /\ t.status # "done"

OpenStatus(t) == t.status \in {"to-do", "in-progress"}

FeatureVector(u, p) ==
  LET act == LatestActivity(u, p)
      all == TasksOf(u, p)
  IN [commitsCount |-> act.commits,
      tasksInProgress |-> Cardinality({i \in all : OpenStatus(tasks[i])}),
      completedTasks |-> Cardinality({i \in all : tasks[i].status = "done"}),
      overdueTasks |-> Cardinality({i \in all : OverdueForScore(tasks[i])}),
      pullRequestsCount |-> act.pullRequests]

ZeroFv ==
  [commitsCount |-> 0, tasksInProgress |-> 0, completedTasks |-> 0,
   overdueTasks |-> 0, pullRequestsCount |-> 0]

(***************************************************************************)
(* Heuristic fallback scorer: calculateBurnoutWithAI, lines 144-177.       *)
(***************************************************************************)
Min(a, b) == IF a < b THEN a ELSE b

\* mutant: the bands of the commits closed at their lower ends
CommitsTerm_Inclusive(c) ==
  IF c >= 50 THEN 30 ELSE IF c >= 30 THEN 20 ELSE IF c >= 15 THEN 10 ELSE 0

CommitsTerm(c) == IF c > 50 THEN 30 ELSE IF c > 30 THEN 20 ELSE IF c > 15 THEN 10 ELSE 0

ProgressTerm(n) == IF n > 8 THEN 35 ELSE IF n > 5 THEN 25 ELSE IF n > 3 THEN 15 ELSE 0

OverdueTerm(n) == IF n > 5 THEN 25 ELSE IF n > 2 THEN 15 ELSE 0

CompletedTerm(n) == IF n > 20 THEN 10 ELSE 0

FallbackScore(fv) ==
  Min(CommitsTerm(fv.commitsCount) + ProgressTerm(fv.tasksInProgress)
        + OverdueTerm(fv.overdueTasks) + CompletedTerm(fv.completedTasks),
      100)

\* mutant: the high threshold compared with > instead of >=
RiskLevelOf_Strict(score) ==
  IF score > 70 THEN "high" ELSE IF score >= 40 THEN "medium" ELSE "low"

RiskLevelOf(score) ==
  IF score >= 70 THEN "high" ELSE IF score >= 40 THEN "medium" ELSE "low"

\* the factors object, each field a JavaScript value
FactorsOf(fv) ==
  [commitsCount |-> Num(fv.commitsCount),
   tasksInProgress |-> Num(fv.tasksInProgress),
   completedTasks |-> Num(fv.completedTasks),
   overdueTasks |-> Num(fv.overdueTasks),
   pullRequestsCount |-> Num(fv.pullRequestsCount)]

NoFactors ==
  [commitsCount |-> Undefined, tasksInProgress |-> Undefined,
   completedTasks |-> Undefined, overdueTasks |-> Undefined,
   pullRequestsCount |-> Undefined]

\* the result of the scorer for one feature vector
FallbackOf(fv) ==
  [score |-> Num(FallbackScore(fv)),
   riskLevel |-> RiskLevelOf(FallbackScore(fv)),
   factors |-> FactorsOf([fv EXCEPT !.pullRequestsCount = 0]),
   modelUsed |-> "fallback"]

\* the catch branch: it reads the user's activity and tasks again, by
\* userId alone, and scores those
FallbackResult(u, p) == FallbackOf(FeatureVector(u, NoProject))

NoAi ==
  [score |-> Undefined, riskLevel |-> "undefined", factors |-> NoFactors,
   modelUsed |-> "undefined"]

(***************************************************************************)
(* BurnoutScore documents: burnoutSchema and the default strict mode.      *)
(* The schema declares userId, score (min 0, max 100), week, year and      *)
(* factors.{commitsCount, overtimeHours, tasksInProgress, aiChatCount,     *)
(* missedDeadlines}, plus the timestamps; a path the schema does not       *)
(* declare is dropped by the constructor and reads back as undefined.      *)
(***************************************************************************)
SchemaFactors(f) ==
  [commitsCount |-> f.commitsCount,
   tasksInProgress |-> f.tasksInProgress,
   completedTasks |-> Undefined,
   overdueTasks |-> Undefined,
   pullRequestsCount |-> Undefined]

\* new BurnoutScore({ userId, projectId, score, riskLevel, factors, ... })
BurnoutScoreDoc(u, p, ai, t) ==
  [userId |-> u,
   projectId |-> NoProject,
   score |-> ai.score,
   riskLevel |-> "undefined",
   factors |-> SchemaFactors(ai.factors),
   modelUsed |-> "undefined",
   createdAt |-> t]

\* the validation run by save(): score casts to a Number within min/max
ValidDoc(d) ==
  \/ d.score.kind = "undefined"
  \/ d.score.kind = "number" /\ d.score.num >= 0 /\ d.score.num <= 100

\* createdAt: { $gte: new Date(Date.now() - 60 * 60 * 1000) }
Fresh(d) == d.createdAt >= now - FreshWindow

\* mutant: the sort direction reversed, the oldest fresh record is found
FindRecent_Oldest(u, p) ==
  LET S == {i \in DOMAIN scores :
              /\ scores[i].userId = u
              /\ (p # NoProject /\ ~strictQuery) => scores[i].projectId = p
              /\ Fresh(scores[i])}
  IN IF S = {} THEN 0 ELSE CHOOSE i \in S : \A j \in S : i <= j

\* BurnoutScore.findOne({ userId, [projectId,] createdAt }).sort({ createdAt: -1 })
\* as an id, 0 when there is none.  projectId is no path of the schema: the
\* strictQuery option decides whether the filter keeps it.
FindRecent(u, p) ==
  LET S == {i \in DOMAIN scores :
              /\ scores[i].userId = u
              /\ (p # NoProject /\ ~strictQuery) => scores[i].projectId = p
              /\ Fresh(scores[i])}
  IN IF S = {} THEN 0
     ELSE CHOOSE i \in S :
            \A j \in S : \/ scores[j].createdAt < scores[i].createdAt
                         \/ scores[j].createdAt = scores[i].createdAt /\ j <= i

(***************************************************************************)
(* What a model call can give: an error (quota or other), text that is not *)
(* JSON, the JSON literal null, or a JSON value whose score, riskLevel and *)
(* factors are whatever the model wrote.                                   *)
(***************************************************************************)
AiScores == {Undefined, Str, Num(55), Num(150)}

AiRiskLevels == {"high"}

OracleFailures == {"error", "quota", "unparseable", "null"}

OracleOutcomes(fv) ==
  [kind : OracleFailures, score : {Undefined}, riskLevel : {"undefined"},
   factors : {NoFactors}]
  \cup
  [kind : {"json"}, score : AiScores, riskLevel : AiRiskLevels,
   factors : {FactorsOf(fv)}]

(***************************************************************************)
(* Requests.                                                               *)
(***************************************************************************)
NoSummary ==
  [teamSize |-> 0, averageScore |-> Undefined, high |-> 0, medium |-> 0,
   low |-> 0, members |-> << >>]

NoResp == [status |-> 0, id |-> 0, summary |-> NoSummary]

IdleReq ==
  [pc |-> "idle", kind |-> "none", userId |-> NoUser, projectId |-> NoProject,
   force |-> FALSE, managerId |-> "none", recent |-> 0, fv |-> ZeroFv,
   k |-> 0, invoked |-> << >>, lastOut |-> "none", fallbackRun |-> FALSE,
   ai |-> NoAi, members |-> << >>, idx |-> 0, lookups |-> << >>,
   computed |-> << >>,
   teamBurnout |-> << >>, created |-> << >>, resp |-> NoResp,
   prevId |-> 0]

\* mutant: allMembers used without the Map that removes duplicates
UniqueMembers_All(m) ==
  LET ts == SelectSeq(Teams, LAMBDA t : t.managerId = m)
      RECURSIVE Cat(_)
      Cat(i) == IF i > Len(ts) THEN << >> ELSE ts[i].members \o Cat(i + 1)
  IN Cat(1)

\* uniqueMembers = [...new Map(allMembers.map(m => [m._id, m])).values()]:
\* the members of the manager's teams, each once, in order of first occurrence
RECURSIVE Dedup(_)
Dedup(s) ==
  IF s = << >> THEN << >>
  ELSE LET front == Dedup(SubSeq(s, 1, Len(s) - 1))
           x == s[Len(s)]
       IN IF \E i \in DOMAIN front : front[i] = x THEN front
          ELSE Append(front, x)

RECURSIVE Flatten(_)
Flatten(ss) ==
  IF ss = << >> THEN << >> ELSE Head(ss) \o Flatten(Tail(ss))

TeamsOf(m) == SelectSeq(Teams, LAMBDA t : t.managerId = m)

AllMembers(m) ==
  Flatten([i \in DOMAIN TeamsOf(m) |-> TeamsOf(m)[i].members])

UniqueMembers(m) == Dedup(AllMembers(m))

(***************************************************************************)
(* Team summary: router.get('/team/:managerId'), lines 376-392.            *)
(***************************************************************************)
\* Math.round of sum / n for sum >= 0, n > 0
RoundDiv(sum, n) == (2 * sum + n) \div (2 * n)

\* teamBurnout.sort((a, b) => (b.score || 0) - (a.score || 0)), a stable sort
RECURSIVE InsertByScore(_, _)
InsertByScore(sorted, e) ==
  IF sorted = << >> THEN << e >>
  ELSE IF OrZero(Head(sorted).score) >= OrZero(e.score)
       THEN << Head(sorted) >> \o InsertByScore(Tail(sorted), e)
       ELSE << e >> \o sorted

RECURSIVE SortByScore(_)
SortByScore(s) ==
  IF s = << >> THEN << >>
  ELSE InsertByScore(SortByScore(SubSeq(s, 1, Len(s) - 1)), s[Len(s)])

CountRisk(tb, level) == Cardinality({i \in DOMAIN tb : tb[i].riskLevel = level})

Summary(tb) ==
  [teamSize |-> Len(tb),
   averageScore |->
     IF Len(tb) = 0 THEN NotANumber
     ELSE Num(RoundDiv(SeqSum([i \in DOMAIN tb |-> OrZero(tb[i].score)]), Len(tb))),
   high |-> CountRisk(tb, "high"),
   medium |-> CountRisk(tb, "medium"),
   low |-> CountRisk(tb, "low"),
   members |-> SortByScore(tb)]

\* the entry pushed for a member whose score was found or computed
MemberEntry(u, d, id) ==
  [userId |-> u, score |-> d.score, riskLevel |-> d.riskLevel,
   error |-> FALSE, id |-> id]

\* the entry pushed by the catch of the member loop
FailedEntry(u) ==
  [userId |-> u, score |-> Num(0), riskLevel |-> "low", error |-> TRUE,
   id |-> 0]

\* after the push: the next member's lookup, or the summary and the response
AfterMember(rq, e) ==
  LET tb == Append(rq.teamBurnout, e)
  IN IF rq.idx < Len(rq.members)
     THEN [rq EXCEPT !.teamBurnout = tb, !.idx = rq.idx + 1,
                     !.userId = rq.members[rq.idx + 1], !.pc = "lookup",
                     !.recent = 0, !.fv = ZeroFv, !.k = 0, !.invoked = << >>,
                     !.lastOut = "none", !.fallbackRun = FALSE, !.ai = NoAi]
     ELSE [rq EXCEPT !.teamBurnout = tb, !.pc = "done",
                     !.resp = [status |-> 200, id |-> 0, summary |-> Summary(tb)]]

\* mutant: the route without its test of userId
StartScore_NoUserCheck(r) ==
  /\ req[r].pc = "idle"
  /\ \E u \in Users \cup {NoUser}, p \in ScopedProjects \cup {NoProject}, f \in BOOLEAN :
       req' = [req EXCEPT ![r] =
                 [@ EXCEPT !.kind = "score", !.userId = u, !.projectId = p,
                           !.force = f, !.pc = "lookup"]]
  /\ UNCHANGED <<now, strictQuery, scores, githubActivity, tasks, sreq, probe, tz, hreq, tres, notifications, nres>>

(***************************************************************************)
(* router.get('/'): single-user score request.                            *)
(***************************************************************************)
StartScore(r) ==
  /\ req[r].pc = "idle"
  /\ \E u \in Users \cup {NoUser}, p \in ScopedProjects \cup {NoProject}, f \in BOOLEAN :
       req' = [req EXCEPT ![r] =
                 IF u = NoUser
                 THEN [@ EXCEPT !.kind = "score", !.pc = "done",
                                !.resp = [NoResp EXCEPT !.status = 400]]
                 ELSE [@ EXCEPT !.kind = "score", !.userId = u, !.projectId = p,
                                !.force = f, !.pc = "lookup"]]
  /\ UNCHANGED <<now, strictQuery, scores, githubActivity, tasks, sreq, probe, tz, hreq, tres, notifications, nres>>

\* mutant: the not-found test made on the members instead of the teams, a
\* manager whose teams have no member gets the 404
StartTeam_EmptyIs404(r) ==
  /\ req[r].pc = "idle"
  /\ \E m \in Managers, f \in BOOLEAN :
       LET members == UniqueMembers(m)
       IN req' = [req EXCEPT ![r] =
                 IF members = << >>
                 THEN [@ EXCEPT !.kind = "team", !.managerId = m, !.pc = "done",
                                !.resp = [NoResp EXCEPT !.status = 404]]
                 ELSE [@ EXCEPT !.kind = "team", !.managerId = m, !.force = f,
                                !.members = members, !.idx = 1,
                                !.userId = members[1], !.pc = "lookup"]]
  /\ UNCHANGED <<now, strictQuery, scores, githubActivity, tasks, sreq, probe, tz, hreq, tres, notifications, nres>>

(***************************************************************************)
(* router.get('/team/:managerId'): Team.find, the 404, uniqueMembers.      *)
(***************************************************************************)
StartTeam(r) ==
  /\ req[r].pc = "idle"
  /\ \E m \in Managers, f \in BOOLEAN :
       LET members == UniqueMembers(m)
       IN req' = [req EXCEPT ![r] =
                 IF TeamsOf(m) = << >>
                 THEN [@ EXCEPT !.kind = "team", !.managerId = m, !.pc = "done",
                                !.resp = [NoResp EXCEPT !.status = 404]]
                 ELSE IF members = << >>
                 THEN [@ EXCEPT !.kind = "team", !.managerId = m, !.force = f,
                                !.pc = "done",
                                !.resp = [status |-> 200, id |-> 0,
                                          summary |-> Summary(<< >>)]]
                 ELSE [@ EXCEPT !.kind = "team", !.managerId = m, !.force = f,
                                !.members = members, !.idx = 1,
                                !.userId = members[1], !.pc = "lookup"]]
  /\ UNCHANGED <<now, strictQuery, scores, githubActivity, tasks, sreq, probe, tz, hreq, tres, notifications, nres>>

(***************************************************************************)
(* The cache check of both routes (lines 190-201 and 316-325).             *)
(***************************************************************************)
Lookup(r) ==
  /\ req[r].pc = "lookup"
  /\ LET rq == req[r]
         id == FindRecent(rq.userId, rq.projectId)
         looked == [rq EXCEPT !.lookups = Append(@, rq.userId), !.recent = id]
     IN req' = [req EXCEPT ![r] =
                 IF id # 0 /\ ~rq.force
                 THEN IF rq.kind = "score"
                      THEN [looked EXCEPT !.pc = "done",
                                          !.resp = [NoResp EXCEPT !.status = 200, !.id = id]]
                      ELSE AfterMember(looked, MemberEntry(rq.userId, scores[id], id))
                 ELSE [looked EXCEPT !.pc = "features"]]
  /\ UNCHANGED <<now, strictQuery, scores, githubActivity, tasks, sreq, probe, tz, hreq, tres, notifications, nres>>

(***************************************************************************)
(* calculateBurnoutWithAI: the reads and the prompt (lines 28-99).         *)
(***************************************************************************)
Features(r) ==
  /\ req[r].pc = "features"
  /\ req' = [req EXCEPT ![r] =
               [@ EXCEPT !.fv = FeatureVector(req[r].userId, req[r].projectId),
                         !.computed = Append(@, req[r].userId),
                         !.k = 1, !.pc = "model"]]
  /\ UNCHANGED <<now, strictQuery, scores, githubActivity, tasks, sreq, probe, tz, hreq, tres, notifications, nres>>

\* mutant: the member loop without its try/catch, a failed save ends the
\* whole team request with the 500 of the outer catch
Save_NoCatch(r, rq) ==
  LET doc == BurnoutScoreDoc(rq.userId, rq.projectId, rq.ai, now)
      id == Len(scores) + 1
  IN IF ValidDoc(doc)
     THEN /\ Len(scores) < MaxScores
          /\ scores' = Append(scores, doc)
          /\ req' = [req EXCEPT ![r] =
               LET saved == [rq EXCEPT !.created = Append(@, id)]
               IN IF rq.kind = "score"
                  THEN [saved EXCEPT !.pc = "done",
                                     !.resp = [NoResp EXCEPT !.status = 200, !.id = id]]
                  ELSE AfterMember(saved, MemberEntry(rq.userId, doc, id))]
     ELSE /\ scores' = scores
          /\ req' = [req EXCEPT ![r] =
               [rq EXCEPT !.pc = "done", !.resp = [NoResp EXCEPT !.status = 500]]]

(***************************************************************************)
(* new BurnoutScore(...), save() and the response (lines 212-233), or the  *)
(* push into teamBurnout (lines 333-373), for a request rq that holds its  *)
(* aiResult.  A validation error of save() is the 500 of the single-user   *)
(* route and the failed entry of the team route.                           *)
(***************************************************************************)
Save(r, rq) ==
  LET doc == BurnoutScoreDoc(rq.userId, rq.projectId, rq.ai, now)
      id == Len(scores) + 1
  IN IF ValidDoc(doc)
     THEN /\ Len(scores) < MaxScores
          /\ scores' = Append(scores, doc)
          /\ req' = [req EXCEPT ![r] =
               LET saved == [rq EXCEPT !.created = Append(@, id)]
               IN IF rq.kind = "score"
                  THEN [saved EXCEPT !.pc = "done",
                                     !.resp = [NoResp EXCEPT !.status = 200, !.id = id]]
                  ELSE AfterMember(saved, MemberEntry(rq.userId, doc, id))]
     ELSE /\ scores' = scores
          /\ req' = [req EXCEPT ![r] =
               IF rq.kind = "score"
               THEN [rq EXCEPT !.pc = "done",
                               !.resp = [NoResp EXCEPT !.status = 500]]
               ELSE AfterMember(rq, FailedEntry(rq.userId))]

\* mutant: a failed candidate makes the loop skip the one after it
ModelStep_Skip(rq, out) ==
  LET called == [rq EXCEPT !.invoked = Append(@, rq.k), !.lastOut = out.kind]
  IN IF out.kind = "json"
     THEN [called EXCEPT !.ai = [score |-> out.score, riskLevel |-> out.riskLevel,
                                 factors |-> out.factors,
                                 modelUsed |-> AVAILABLE_MODELS[rq.k]]]
     ELSE IF rq.k + 1 < Len(AVAILABLE_MODELS)
          THEN [called EXCEPT !.k = rq.k + 2]
          ELSE [called EXCEPT !.pc = "fallback"]

(***************************************************************************)
(* calculateBurnoutWithAI: one pass of the model loop (lines 102-129).     *)
(* A call error and a JSON.parse error are caught and the loop continues;  *)
(* so is the TypeError of reading .score of a parsed null.  A parsed value *)
(* is returned to the route, which saves it.  After the last model the     *)
(* function throws into its own catch, the fallback branch.                *)
(***************************************************************************)
ModelStep(rq, out) ==
  LET called == [rq EXCEPT !.invoked = Append(@, rq.k), !.lastOut = out.kind]
  IN IF out.kind = "json"
     THEN [called EXCEPT !.ai = [score |-> out.score, riskLevel |-> out.riskLevel,
                                 factors |-> out.factors,
                                 modelUsed |-> AVAILABLE_MODELS[rq.k]]]
     ELSE IF rq.k < Len(AVAILABLE_MODELS)
          THEN [called EXCEPT !.k = rq.k + 1]
          ELSE [called EXCEPT !.pc = "fallback"]

CallModel(r) ==
  /\ req[r].pc = "model"
  /\ \E out \in OracleOutcomes(req[r].fv) :
       IF out.kind = "json"
       THEN Save(r, ModelStep(req[r], out))
       ELSE /\ req' = [req EXCEPT ![r] = ModelStep(@, out)]
            /\ scores' = scores
  /\ UNCHANGED <<now, strictQuery, githubActivity, tasks, sreq, probe, tz, hreq, tres, notifications, nres>>

(***************************************************************************)
(* calculateBurnoutWithAI: the fallback branch (lines 132-178), whose      *)
(* result the route saves.                                                 *)
(***************************************************************************)
Fallback(r) ==
  /\ req[r].pc = "fallback"
  /\ Save(r, [req[r] EXCEPT !.ai = FallbackResult(req[r].userId, req[r].projectId),
                            !.fallbackRun = TRUE])
  /\ UNCHANGED <<now, strictQuery, githubActivity, tasks, sreq, probe, tz, hreq, tres, notifications, nres>>

\* the response is sent and the request is over
Finish(r) ==
  /\ req[r].pc = "done"
  /\ req' = [req EXCEPT ![r] = IdleReq]
  /\ UNCHANGED <<now, strictQuery, scores, githubActivity, tasks, sreq, probe, tz, hreq, tres, notifications, nres>>

\* the client sends a single-user request that was answered once more,
\* unforced; prevId is the record the first answer carried
RepeatScore(r) ==
  /\ req[r].pc = "done"
  /\ req[r].kind = "score"
  /\ req[r].resp.status = 200
  /\ req' = [req EXCEPT ![r] =
               [IdleReq EXCEPT !.kind = "score", !.userId = req[r].userId,
                               !.projectId = req[r].projectId,
                               !.prevId = req[r].resp.id, !.pc = "lookup"]]
  /\ UNCHANGED <<now, strictQuery, scores, githubActivity, tasks, sreq, probe, tz, hreq, tres, notifications, nres>>

\* time passes
Tick ==
  /\ now + TickStep <= MaxTime
  /\ now' = now + TickStep
  /\ UNCHANGED <<strictQuery, scores, githubActivity, tasks, req, sreq, probe, tz, hreq, tres, notifications, nres>>

(***************************************************************************)
(* Task prioritisation: routes/tasks.js, POST /smart-sort.                 *)
(***************************************************************************)
GEMINI_MODELS == << "gemini-2.5-pro" >>

NoSortResp ==
  [status |-> 0, sortedTaskIds |-> << >>, tasksAnalyzed |-> Undefined,
   reasoning |-> "none"]

IdleSort ==
  [pc |-> "idle", userId |-> NoUser, base |-> << >>, modelIndex |-> 0,
   retryCount |-> 0, calls |-> << >>, waits |-> << >>, lastErr |-> "none",
   aiKind |-> "none", aiIndices |-> << >>, resp |-> NoSortResp]

\* Task.find({ assignedTo, status: { $in: ['to-do', 'in-progress'] } })
\*   .sort({ createdAt: 1 }): the ids of the user's open tasks, oldest first
RECURSIVE InsertByCreated(_, _)
InsertByCreated(sorted, i) ==
  IF sorted = << >> THEN << i >>
  ELSE IF tasks[Head(sorted)].createdAt <= tasks[i].createdAt
       THEN << Head(sorted) >> \o InsertByCreated(Tail(sorted), i)
       ELSE << i >> \o sorted

RECURSIVE OpenTasksUpTo(_, _)
OpenTasksUpTo(u, n) ==
  IF n = 0 THEN << >>
  ELSE IF tasks[n].assignedTo = u /\ OpenStatus(tasks[n])
       THEN InsertByCreated(OpenTasksUpTo(u, n - 1), n)
       ELSE OpenTasksUpTo(u, n - 1)

OpenTasksOf(u) == OpenTasksUpTo(u, Len(tasks))

\* tasksForAI (lines 404-430): the fields of the feature record that the
\* fallback sort reads.  hoursUntilDue is a string of one decimal, kept in
\* tenths of an hour.
DueOrCreated(t) == IF t.dueDate # NoDate THEN t.dueDate ELSE t.createdAt

HoursUntilDue(t) ==
  IF DueOrCreated(t) <= now THEN 0
  ELSE (2 * (DueOrCreated(t) - now) + 6) \div 12

TaskForAI(t) ==
  [status |-> IF t.status = "to-do" THEN "todo" ELSE t.status,
   priority |-> t.priority,
   hoursUntilDue |-> HoursUntilDue(t),
   isOverdue |-> DueOrCreated(t) < now]

priorityOrder(p) == IF p = "high" THEN 0 ELSE IF p = "medium" THEN 1 ELSE 2

\* mutant: the last key subtracted the other way round, the later deadline
\* first
FallbackCompare_LatestFirst(a, b) ==
  IF a.isOverdue # b.isOverdue THEN (IF a.isOverdue THEN -1 ELSE 1)
  ELSE IF (a.status = "in-progress") # (b.status = "in-progress")
       THEN (IF a.status = "in-progress" THEN -1 ELSE 1)
  ELSE IF priorityOrder(a.priority) - priorityOrder(b.priority) # 0
       THEN priorityOrder(a.priority) - priorityOrder(b.priority)
  ELSE b.hoursUntilDue - a.hoursUntilDue

\* the comparator of the fallback sort (lines 483-502): negative when a
\* sorts before b
FallbackCompare(a, b) ==
  IF a.isOverdue # b.isOverdue THEN (IF a.isOverdue THEN -1 ELSE 1)
  ELSE IF (a.status = "in-progress") # (b.status = "in-progress")
       THEN (IF a.status = "in-progress" THEN -1 ELSE 1)
  ELSE IF priorityOrder(a.priority) - priorityOrder(b.priority) # 0
       THEN priorityOrder(a.priority) - priorityOrder(b.priority)
  ELSE a.hoursUntilDue - b.hoursUntilDue

\* Array.prototype.sort with that comparator, a stable sort of the indices
\* 0..N-1 of the base order
RECURSIVE InsertIndex(_, _, _)
InsertIndex(sorted, idx, base) ==
  IF sorted = << >> THEN << idx >>
  ELSE IF FallbackCompare(TaskForAI(tasks[base[Head(sorted) + 1]]),
                          TaskForAI(tasks[base[idx + 1]])) <= 0
       THEN << Head(sorted) >> \o InsertIndex(Tail(sorted), idx, base)
       ELSE << idx >> \o sorted

RECURSIVE FallbackIndicesUpTo(_, _)
FallbackIndicesUpTo(base, n) ==
  IF n = 0 THEN << >>
  ELSE InsertIndex(FallbackIndicesUpTo(base, n - 1), n - 1, base)

FallbackIndices(base) == FallbackIndicesUpTo(base, Len(base))

\* mutant: the ids taken in the base order, the model's indices ignored
TaskIds_BaseOrder(indices, base) == [i \in DOMAIN indices |-> base[i]]

\* sortedIndices.map(idx => tasks[idx]._id.toString())
TaskIds(indices, base) == [i \in DOMAIN indices |-> base[indices[i] + 1]]

\* what a call of generateContent can give to smart-sort: an error whose
\* message names the quota, another error, or a text: not JSON, JSON without
\* an array sortedIndices, or JSON with the array: every array of N or N-1
\* indices within 0..N (N being out of range), and one of N+1 indices
IndexArrays(n) ==
  UNION {[1..len -> 0..n] : len \in {n - 1, n}} \cup {[i \in 1..(n + 1) |-> i - 1]}

SortOutcomes(n) ==
  [kind : {"quota", "error", "unparseable", "notArray"}, indices : {<< >>}]
  \cup [kind : {"array"}, indices : IndexArrays(n)]

\* mutant: the retry test off by one, a model gets a third retry
getGeminiResponse_ThreeRetries(sq, out) ==
  LET called == [sq EXCEPT !.calls = Append(@, sq.modelIndex),
                           !.lastErr = out.kind]
  IN IF out.kind = "quota" /\ sq.retryCount < 3
     THEN [called EXCEPT !.retryCount = sq.retryCount + 1,
                         !.waits = Append(@, 2000 * (sq.retryCount + 1))]
     ELSE IF sq.modelIndex + 1 >= Len(GEMINI_MODELS)
          THEN [called EXCEPT !.modelIndex = sq.modelIndex + 1, !.retryCount = 0,
                              !.pc = "done",
                              !.resp = [NoSortResp EXCEPT !.status = 500]]
          ELSE [called EXCEPT !.modelIndex = sq.modelIndex + 1, !.retryCount = 0]

\* getGeminiResponse (lines 79-103) after one call that failed: the same
\* model again after a delay, the next model, or the throw after the last
getGeminiResponse(sq, out) ==
  LET called == [sq EXCEPT !.calls = Append(@, sq.modelIndex),
                           !.lastErr = out.kind]
  IN IF out.kind = "quota" /\ sq.retryCount < 2
     THEN [called EXCEPT !.retryCount = sq.retryCount + 1,
                         !.waits = Append(@, 2000 * (sq.retryCount + 1))]
     ELSE IF sq.modelIndex + 1 >= Len(GEMINI_MODELS)
          THEN [called EXCEPT !.modelIndex = sq.modelIndex + 1, !.retryCount = 0,
                              !.pc = "done",
                              !.resp = [NoSortResp EXCEPT !.status = 500]]
          ELSE [called EXCEPT !.modelIndex = sq.modelIndex + 1, !.retryCount = 0]

\* the route after the text arrived (lines 459-519): parse, the length
\* check, the fallback sort of the inner catch, the ids, the response; an
\* index without a task throws into the outer catch
SortResponse(sq, out) ==
  LET n == Len(sq.base)
      got == [sq EXCEPT !.calls = Append(@, sq.modelIndex), !.aiKind = out.kind,
                        !.aiIndices = out.indices, !.pc = "done"]
      accepted == out.kind = "array" /\ Len(out.indices) = n
      sortedIndices == IF accepted THEN out.indices ELSE FallbackIndices(sq.base)
  IN IF \E i \in DOMAIN sortedIndices : sortedIndices[i] \notin 0..(n - 1)
     THEN [got EXCEPT !.resp = [NoSortResp EXCEPT !.status = 500]]
     ELSE [got EXCEPT !.resp =
             [status |-> 200,
              sortedTaskIds |-> TaskIds(sortedIndices, sq.base),
              tasksAnalyzed |-> Num(n),
              reasoning |-> IF accepted THEN "ai" ELSE "fallback"]]

\* the route up to the prompt (lines 382-456)
StartSort ==
  /\ sreq.pc = "idle"
  /\ \E u \in Users \cup {NoUser} :
       sreq' =
         IF u = NoUser
         THEN [IdleSort EXCEPT !.pc = "done",
                               !.resp = [NoSortResp EXCEPT !.status = 400]]
         ELSE IF OpenTasksOf(u) = << >>
         THEN [IdleSort EXCEPT !.userId = u, !.pc = "done",
                               !.resp = [NoSortResp EXCEPT !.status = 200]]
         ELSE [IdleSort EXCEPT !.userId = u, !.base = OpenTasksOf(u),
                               !.pc = "gemini"]
  /\ UNCHANGED <<now, strictQuery, scores, githubActivity, tasks, req, probe, tz, hreq, tres, notifications, nres>>

\* one call of generateContent and what follows it without another await
GeminiCall ==
  /\ sreq.pc = "gemini"
  /\ \E out \in SortOutcomes(Len(sreq.base)) :
       sreq' = IF out.kind \in {"quota", "error"}
               THEN getGeminiResponse(sreq, out)
               ELSE SortResponse(sreq, out)
  /\ UNCHANGED <<now, strictQuery, scores, githubActivity, tasks, req, probe, tz, hreq, tres, notifications, nres>>

FinishSort ==
  /\ sreq.pc = "done"
  /\ sreq' = IdleSort
  /\ UNCHANGED <<now, strictQuery, scores, githubActivity, tasks, req, probe, tz, hreq, tres, notifications, nres>>

(***************************************************************************)
(* router.get('/team/:managerId/hours'), lines 400-474: the hours of the   *)
(* tasks completed by the manager's team members, per day, for the last    *)
(* 28 days.                                                                *)
(***************************************************************************)
NoHoursResp == [status |-> 0, dailyHours |-> << >>]

IdleHours == [pc |-> "idle", managerId |-> "none", resp |-> NoHoursResp]

\* d.setHours(0, 0, 0, 0): the instant of the local midnight before t
LocalMidnight(t) == ((t + tz) \div 1440) * 1440 - tz

\* d.toISOString().split('T')[0]: the calendar day of t in UTC, as the
\* number of the day
IsoDate(t) == t \div 1440

\* fourWeeksAgo: setDate(getDate() - 28)
FourWeeksAgo == now - 28 * 1440

\* memberIds = teams.flatMap(team => team.members.map(m => m._id)), and
\* Task.find({ assignedTo: { $in: memberIds }, status: 'done',
\*             completedAt: { $gte: fourWeeksAgo } })
HoursTasksOf(m) ==
  SelectSeq(tasks,
            LAMBDA t : /\ \E i \in DOMAIN AllMembers(m) : AllMembers(m)[i] = t.assignedTo
                       /\ t.status = "done"
                       /\ t.completedAt # NoDate
                       /\ t.completedAt >= FourWeeksAgo)

\* the keys of dailyHours in the order the loop of lines 431-436 adds them
DateKeys == [i \in 1..28 |-> IsoDate(LocalMidnight(now) - (i - 1) * 1440)]

\* tasks.forEach (lines 439-451): the minutes added under the key
MinutesOn(key, found) ==
  SeqSum([i \in DOMAIN found |->
            IF /\ found[i].startedAt # NoDate
               /\ IsoDate(LocalMidnight(found[i].completedAt)) = key
            THEN found[i].completedAt - found[i].startedAt
            ELSE 0])

\* Object.entries(dailyHours).sort(localeCompare on the date)
RECURSIVE InsertByDate(_, _)
InsertByDate(sorted, e) ==
  IF sorted = << >> THEN << e >>
  ELSE IF Head(sorted).date <= e.date
       THEN << Head(sorted) >> \o InsertByDate(Tail(sorted), e)
       ELSE << e >> \o sorted

RECURSIVE SortByDate(_)
SortByDate(s) ==
  IF s = << >> THEN << >>
  ELSE InsertByDate(SortByDate(SubSeq(s, 1, Len(s) - 1)), s[Len(s)])

\* hoursArray: per key the date and Math.round(hours * 10) / 10, kept in
\* tenths of an hour
HoursArray(m) ==
  LET found == HoursTasksOf(m)
  IN SortByDate([i \in 1..28 |->
                   [date |-> DateKeys[i],
                    hours |-> RoundDiv(MinutesOn(DateKeys[i], found), 6)]])

TeamHours ==
  /\ hreq.pc = "idle"
  /\ \E m \in Managers :
       hreq' = IF TeamsOf(m) = << >>
               THEN [pc |-> "done", managerId |-> m,
                     resp |-> [NoHoursResp EXCEPT !.status = 404]]
               ELSE [pc |-> "done", managerId |-> m,
                     resp |-> [status |-> 200, dailyHours |-> HoursArray(m)]]
  /\ UNCHANGED <<now, strictQuery, scores, githubActivity, tasks, req, sreq, probe, tz, tres, notifications, nres>>

FinishHours ==
  /\ hreq.pc = "done"
  /\ hreq' = IdleHours
  /\ UNCHANGED <<now, strictQuery, scores, githubActivity, tasks, req, sreq, probe, tz, tres, notifications, nres>>

(***************************************************************************)
(* Task routes: routes/tasks.js, POST /, PATCH /:id/status and PUT /:id.   *)
(* A task's id is its place in the collection.  realHours is in tenths of  *)
(* an hour.  tres is the answer to the last request of these routes.       *)
(***************************************************************************)
\* a stored task
Task(u, p, st, pr, due, created) ==
  [assignedTo |-> u, projectId |-> p, status |-> st, priority |-> pr,
   dueDate |-> due, createdAt |-> created, startedAt |-> NoDate,
   completedAt |-> NoDate, realHours |-> Undefined]

\* the realHours a PUT body carries, in tenths of an hour
PutHours == {-10, 0, 30}

NoTaskResp == [op |-> "none", id |-> 0, body |-> "none", status |-> 0]

\* ['to-do', 'in-progress', 'done', 'todo'], the statuses PATCH accepts
PatchAccepted == {"to-do", "in-progress", "done", "todo"}

\* status === 'todo' ? 'to-do' : status
NormalizeStatus(st) == IF st = "todo" THEN "to-do" ELSE st

\* Math.round(durationHours * 10) / 10
DurationHours(startedAt, completedAt) == RoundDiv(completedAt - startedAt, 6)

\* Team.findOne({ members: u }): the first team the user is a member of
TeamOfMember(u) ==
  LET S == {i \in DOMAIN Teams :
              \E k \in DOMAIN Teams[i].members : Teams[i].members[k] = u}
  IN IF S = {} THEN 0 ELSE CHOOSE i \in S : \A j \in S : i <= j

\* Notification.create({ userId, ... }) of a notification not yet read
Notification(u, read) == [userId |-> u, isRead |-> read, deleted |-> FALSE]

\* POST /: new Task({ ..., status, realHours, dueDate }) and save()
CreateTask ==
  /\ Len(tasks) < MaxTasks
  /\ \E u \in Users, st \in PatchAccepted :
       LET t == Task(u, "p1", NormalizeStatus(st), "medium", NoDate, now)
       IN /\ tasks' = Append(tasks, t)
          /\ tres' = [op |-> "create", id |-> Len(tasks) + 1, body |-> st,
                     status |-> 201]
  /\ UNCHANGED <<now, strictQuery, scores, githubActivity, req, sreq, probe, tz, hreq, notifications, nres>>

\* the update PATCH /:id/status makes to the task it finds
PatchUpdate(t, st) ==
  IF st = "in-progress"
  THEN [t EXCEPT !.status = st, !.startedAt = now]
  ELSE IF st = "done"
  THEN [t EXCEPT !.status = st, !.completedAt = now,
                 !.realHours = IF t.startedAt # NoDate
                               THEN Num(DurationHours(t.startedAt, now))
                               ELSE @]
  ELSE [t EXCEPT !.status = st]

\* PATCH /:id/status.  created tells whether Notification.create, whose
\* failure the handler swallows, has stored the manager's notification.
PatchStatus ==
  \E id \in 1..MaxTasks, body \in PatchAccepted \cup {"blocked", "undefined"},
     created \in BOOLEAN :
    LET st == NormalizeStatus(body)
        team == IF id \in DOMAIN tasks THEN TeamOfMember(tasks[id].assignedTo) ELSE 0
        notify == /\ st = "done"
                  /\ team # 0
                  /\ Teams[team].managerId # tasks[id].assignedTo
                  /\ created
    IN /\ IF body \notin PatchAccepted
          THEN /\ tres' = [op |-> "patch", id |-> id, body |-> body, status |-> 400]
               /\ UNCHANGED <<tasks, notifications>>
          ELSE IF id \notin DOMAIN tasks
          THEN /\ tres' = [op |-> "patch", id |-> id, body |-> body, status |-> 404]
               /\ UNCHANGED <<tasks, notifications>>
          ELSE /\ tasks' = [tasks EXCEPT ![id] = PatchUpdate(@, st)]
               /\ tres' = [op |-> "patch", id |-> id, body |-> body, status |-> 200]
               /\ IF notify
                  THEN /\ Len(notifications) < MaxNotifications
                       /\ notifications' =
                            Append(notifications,
                                   Notification(Teams[team].managerId, FALSE))
                  ELSE notifications' = notifications
       /\ UNCHANGED <<now, strictQuery, scores, githubActivity, req, sreq, probe, tz, hreq, nres>>

\* PUT /:id: updateData = { title, ..., realHours, dueDate } and the status
\* when the body has one.  The client sends the task's form back, the
\* fields besides status and realHours with the values the task has.
PutTask ==
  \E id \in 1..MaxTasks, body \in {"undefined", "todo", "in-progress", "done"},
     hours \in PutHours :
    /\ IF id \notin DOMAIN tasks
       THEN /\ tres' = [op |-> "put", id |-> id, body |-> body, status |-> 404]
            /\ tasks' = tasks
       ELSE /\ tasks' = [tasks EXCEPT ![id] =
                           [@ EXCEPT !.realHours = Num(hours),
                                     !.status = IF body = "undefined" THEN @
                                                ELSE NormalizeStatus(body)]]
            /\ tres' = [op |-> "put", id |-> id, body |-> body, status |-> 200]
    /\ UNCHANGED <<now, strictQuery, scores, githubActivity, req, sreq, probe, tz, hreq, notifications, nres>>

(***************************************************************************)
(* Notification routes: routes/notifications (src/unnamed/part_003).       *)
(* A notification's id is its place in the collection; deleted marks one   *)
(* that was removed, so that an id is never given twice.  A request path   *)
(* below the router's mount point is one segment: an ObjectId or the word  *)
(* clear-read.  nres is the answer to the last request of these routes.    *)
(***************************************************************************)
NoNotifResp ==
  [route |-> "none", handler |-> "none", seg |-> "none", id |-> 0,
   userId |-> NoUser, status |-> 0, deletedCount |-> 0]

Segments ==
  {[lit |-> "clear-read", id |-> 0]}
  \cup {[lit |-> "objectid", id |-> i] : i \in 1..MaxNotifications}

\* router.delete(path, handler), in the order of registration
DeleteRoutes ==
  << [path |-> "/:id", handler |-> "delete"],
     [path |-> "/clear-read", handler |-> "clear-read"] >>

\* a one-segment path matches a parameter pattern whatever the segment is,
\* and a literal pattern when it is that literal
Matches(pattern, seg) ==
  \/ pattern = "/:id"
  \/ pattern = "/clear-read" /\ seg.lit = "clear-read"

\* the first registered route whose pattern matches handles the request
Dispatch(seg) ==
  LET S == {i \in DOMAIN DeleteRoutes : Matches(DeleteRoutes[i].path, seg)}
  IN DeleteRoutes[CHOOSE i \in S : \A j \in S : i <= j].handler

Stored(i) == i \in DOMAIN notifications /\ ~notifications[i].deleted

\* router.patch('/:id/read')
MarkRead ==
  \E i \in 1..MaxNotifications :
    /\ IF Stored(i)
       THEN /\ notifications' = [notifications EXCEPT ![i].isRead = TRUE]
            /\ nres' = [NoNotifResp EXCEPT !.route = "PATCH /:id/read",
                                           !.id = i, !.status = 200]
       ELSE /\ notifications' = notifications
            /\ nres' = [NoNotifResp EXCEPT !.route = "PATCH /:id/read",
                                           !.id = i, !.status = 404]
    /\ UNCHANGED <<now, strictQuery, scores, githubActivity, tasks, req, sreq, probe, tz, hreq, tres>>

\* router.delete('/:id'): findByIdAndDelete(req.params.id), which throws a
\* cast error for a segment that is no ObjectId
DeleteById(seg, u) ==
  LET answer(st) == [NoNotifResp EXCEPT !.route = "DELETE", !.handler = "delete",
                                        !.seg = seg.lit, !.id = seg.id,
                                        !.userId = u, !.status = st]
  IN IF seg.lit # "objectid"
     THEN notifications' = notifications /\ nres' = answer(500)
     ELSE IF Stored(seg.id)
     THEN /\ notifications' = [notifications EXCEPT ![seg.id].deleted = TRUE]
          /\ nres' = answer(200)
     ELSE notifications' = notifications /\ nres' = answer(404)

\* the notifications deleteMany({ userId, isRead: true }) removes
ReadOf(u) ==
  {i \in DOMAIN notifications :
     Stored(i) /\ notifications[i].userId = u /\ notifications[i].isRead}

\* router.delete('/clear-read')
ClearRead(seg, u) ==
  LET answer(st, n) ==
        [NoNotifResp EXCEPT !.route = "DELETE", !.handler = "clear-read",
                            !.seg = seg.lit, !.id = seg.id, !.userId = u,
                            !.status = st, !.deletedCount = n]
  IN IF u = NoUser
     THEN notifications' = notifications /\ nres' = answer(400, 0)
     ELSE /\ notifications' =
               [i \in DOMAIN notifications |->
                  IF i \in ReadOf(u)
                  THEN [notifications[i] EXCEPT !.deleted = TRUE]
                  ELSE notifications[i]]
          /\ nres' = answer(200, Cardinality(ReadOf(u)))

\* a DELETE request to the router, with or without ?userId=
DeleteRequest ==
  \E seg \in Segments, u \in Users \cup {NoUser} :
    /\ IF Dispatch(seg) = "delete" THEN DeleteById(seg, u) ELSE ClearRead(seg, u)
    /\ UNCHANGED <<now, strictQuery, scores, githubActivity, tasks, req, sreq, probe, tz, hreq, tres>>

\* u1 has an unread and a read notification, u2 a read one
NotificationFixture ==
  << Notification("u1", FALSE), Notification("u1", TRUE),
     Notification("u2", TRUE) >>

(***************************************************************************)
(* The collections the scoring reads.  u1 has activity in two projects,    *)
(* the one synced last being p2, and tasks in both; u2 has neither         *)
(* activity nor open work.                                                 *)
(***************************************************************************)
GithubFixture ==
  { [userId |-> "u1", projectId |-> "p1", commits |-> 20, pullRequests |-> 2,
     lastSynced |-> 1],
    [userId |-> "u1", projectId |-> "p2", commits |-> 60, pullRequests |-> 1,
     lastSynced |-> 2] }


TaskFixture ==
  << Task("u1", "p1", "in-progress", "high", 0, 0),
     Task("u1", "p1", "to-do", "low", NoDate, 0),
     Task("u1", "p2", "to-do", "medium", 60, 0),
     Task("u1", "p2", "to-do", "medium", NoDate, 0),
     Task("u1", "p2", "done", "low", 0, 0),
     Task("u2", "p1", "done", "high", NoDate, 0) >>


\* the scorer applied on its own: its input and its result
NoProbe == [done |-> FALSE, fv |-> ZeroFv, result |-> NoAi]

(***************************************************************************)
(* Spec: the burnout routes, one request at a time.                        *)
(***************************************************************************)
Sequential == {1}

Init ==
  /\ now = 0
  /\ strictQuery \in BOOLEAN
  /\ scores = << >>
  /\ githubActivity = GithubFixture
  /\ tasks = TaskFixture
  /\ req = [r \in Procs |-> IdleReq]
  /\ sreq = IdleSort
  /\ probe = NoProbe
  /\ tz = 0
  /\ hreq = IdleHours
  /\ tres = NoTaskResp
  /\ notifications = NotificationFixture
  /\ nres = NoNotifResp

Next ==
  \/ Tick
  \/ \E r \in Sequential :
       \/ StartScore(r)
       \/ StartTeam(r)
       \/ Lookup(r)
       \/ Features(r)
       \/ CallModel(r)
       \/ Fallback(r)
       \/ Finish(r)
       \/ RepeatScore(r)

Spec == Init /\ [][Next]_vars

(***************************************************************************)
(* Properties of the burnout routes.                                       *)
(***************************************************************************)
\* the records a request for (u, p) can be served from: of that user, of
\* that project when one is given, created within the last 60 minutes
MatchingFresh(u, p) ==
  {i \in DOMAIN scores :
     /\ scores[i].userId = u
     /\ p # NoProject => scores[i].projectId = p
     /\ Fresh(scores[i])}

MostRecent(S) ==
  CHOOSE i \in S :
    \A j \in S : \/ scores[j].createdAt < scores[i].createdAt
                 \/ scores[j].createdAt = scores[i].createdAt /\ j <= i

NoDuplicates(s) == \A i, j \in DOMAIN s : s[i] = s[j] => i = j

\* C1: an unforced single-user request that finds a fresh record of its
\* user (and project) answers with the most recent such record, calls no
\* model and creates no record; asked again in a row, it answers with the
\* same record.
C1_CachedScoreReturned ==
  [][\A r \in Procs :
       LET rq == req[r]
           S == MatchingFresh(rq.userId, rq.projectId)
       IN (rq.kind = "score" /\ rq.pc = "lookup" /\ ~rq.force /\ S # {}
             /\ req'[r] # rq)
          => /\ req'[r].pc = "done"
             /\ req'[r].resp.status = 200
             /\ req'[r].resp.id = MostRecent(S)
             /\ req'[r].invoked = << >>
             /\ req'[r].computed = << >>
             /\ req'[r].created = << >>
             /\ scores' = scores
             /\ rq.prevId # 0 => req'[r].resp.id = rq.prevId]_vars

C1_Witness ==
  \E r \in Procs :
    /\ req[r].kind = "score" /\ req[r].pc = "done" /\ ~req[r].force
    /\ req[r].prevId # 0 /\ req[r].resp.id = req[r].prevId
    /\ req[r].resp.status = 200 /\ req[r].invoked = << >>
    /\ Len(scores) = 2 /\ scores[1].userId = scores[2].userId

\* C2: a single-user request with forceRefresh=true always answers with a
\* record it has just created, whatever fresh record its lookup found.
C2_ForceRefreshCreates ==
  \A r \in Procs :
    (req[r].kind = "score" /\ req[r].pc = "done" /\ req[r].force)
    => /\ req[r].resp.status = 200
       /\ req[r].created = << req[r].resp.id >>
       /\ req[r].resp.id # req[r].recent

\* C3: a single-user request all of whose candidates failed succeeds, and
\* the record it saved and answers with is the fallback scorer's result,
\* stored with modelUsed 'fallback'.
C3_FallbackRecordReturned ==
  \A r \in Procs :
    LET rq == req[r]
    IN (rq.kind = "score" /\ rq.pc = "done"
          /\ Len(rq.invoked) = Len(AVAILABLE_MODELS)
          /\ rq.lastOut \in OracleFailures)
       => /\ rq.fallbackRun
          /\ rq.resp.status = 200
          /\ rq.created = << rq.resp.id >>
          /\ rq.resp.id \in DOMAIN scores
          /\ scores[rq.resp.id].userId = rq.userId
          /\ scores[rq.resp.id].score = rq.ai.score
          /\ scores[rq.resp.id].modelUsed = "fallback"

\* what the code keeps of it: the exhaustion is never the caller's error,
\* the fallback ran, its result carries modelUsed 'fallback' and a score
\* within 0..100, and that score is the one of the single record saved
ExhaustionNeverSurfaced ==
  \A r \in Procs :
    LET rq == req[r]
    IN (rq.kind = "score" /\ rq.pc = "done"
          /\ Len(rq.invoked) = Len(AVAILABLE_MODELS)
          /\ rq.lastOut \in OracleFailures)
       => /\ rq.fallbackRun
          /\ rq.ai.modelUsed = "fallback"
          /\ rq.ai.score.kind = "number"
          /\ rq.ai.score.num \in 0..100
          /\ rq.resp.status = 200
          /\ rq.created = << rq.resp.id >>
          /\ rq.resp.id \in DOMAIN scores
          /\ scores[rq.resp.id].userId = rq.userId
          /\ scores[rq.resp.id].score = rq.ai.score

\* C7: when all candidates failed, the score of the pipeline is the
\* fallback score of the feature vector that was built for the model calls.
C7_FallbackOfOracleFeatures ==
  \A r \in Procs :
    (req[r].kind = "score" /\ req[r].pc = "done" /\ req[r].fallbackRun)
    => req[r].ai.score = Num(FallbackScore(req[r].fv))

\* C8 as stated: after a candidate returned text that parses as JSON the
\* loop is over, no further candidate is called and the fallback is not run.
C8_ParseableEndsLoop ==
  \A r \in Procs :
    req[r].lastOut \in {"json", "null"}
    => req[r].pc \notin {"model", "fallback"} /\ ~req[r].fallbackRun

\* C8 amended: candidates are called in list order, each once, the next one
\* only after the one before it failed; a candidate whose text parses to a
\* JSON value other than null ends the loop with that candidate's result and
\* without the fallback; the fallback runs only after the last candidate
\* failed.
C8_OrderedUntilFirstResult ==
  \A r \in Procs :
    LET rq == req[r]
        n == Len(rq.invoked)
    IN /\ rq.invoked = [i \in 1..n |-> i]
       /\ rq.pc = "model"
            => /\ rq.k = n + 1
               /\ n > 0 => rq.lastOut \in OracleFailures
       /\ rq.lastOut = "json"
            => /\ rq.pc \notin {"model", "fallback"}
               /\ ~rq.fallbackRun
               /\ rq.ai.modelUsed = AVAILABLE_MODELS[n]
       /\ (rq.pc = "fallback" \/ rq.fallbackRun)
            => n = Len(AVAILABLE_MODELS) /\ rq.lastOut \in OracleFailures

C8_Witness ==
  \E r \in Procs :
    /\ req[r].pc = "done" /\ req[r].lastOut = "json"
    /\ req[r].invoked = << 1, 2 >> /\ ~req[r].fallbackRun
    /\ req[r].ai.modelUsed = AVAILABLE_MODELS[2]

\* the users that are members of a team of manager m
MemberSet(m) ==
  {u \in Users : \E i \in DOMAIN Teams :
     Teams[i].managerId = m /\ \E j \in DOMAIN Teams[i].members :
       Teams[i].members[j] = u}

\* C9: a team request looks up, computes and saves at most once per
\* member, and its answer lists each member of the manager's teams once.
C9_MembersScoredOnce ==
  \A r \in Procs :
    LET rq == req[r]
        ms == rq.resp.summary.members
    IN rq.kind = "team"
       => /\ NoDuplicates(rq.lookups)
          /\ NoDuplicates(rq.computed)
          /\ \A i, j \in DOMAIN rq.created :
               scores[rq.created[i]].userId = scores[rq.created[j]].userId => i = j
          /\ (rq.pc = "done" /\ rq.resp.status = 200)
               => /\ Len(ms) = Cardinality(MemberSet(rq.managerId))
                  /\ {ms[i].userId : i \in DOMAIN ms} = MemberSet(rq.managerId)

C9_Witness ==
  \E r \in Procs :
    /\ req[r].kind = "team" /\ req[r].pc = "done" /\ req[r].managerId = "m1"
    /\ Len(req[r].resp.summary.members) = 2
    /\ Len(req[r].created) = 2

\* C10: a team request of a manager with teams succeeds whatever happens
\* to single members: a member whose scoring threw is listed with score 0,
\* riskLevel 'low' and the error marker, every other member with the score
\* of the record found or saved for them, and no member is left out.
C10_MemberFailureIsolated ==
  \A r \in Procs :
    LET rq == req[r]
        tb == rq.teamBurnout
    IN (rq.kind = "team" /\ rq.pc = "done" /\ TeamsOf(rq.managerId) # << >>)
       => /\ rq.resp.status = 200
          /\ Len(tb) = Len(rq.members)
          /\ Len(rq.resp.summary.members) = Len(rq.members)
          /\ \A i \in DOMAIN tb :
               /\ tb[i].userId = rq.members[i]
               /\ tb[i].error
                    => tb[i].score = Num(0) /\ tb[i].riskLevel = "low" /\ tb[i].id = 0
               /\ ~tb[i].error
                    => /\ tb[i].id \in DOMAIN scores
                       /\ scores[tb[i].id].userId = tb[i].userId
                       /\ tb[i].score = scores[tb[i].id].score
          /\ (rq.invoked # << >> /\ ~rq.fallbackRun
                /\ ~ValidDoc(BurnoutScoreDoc(rq.userId, NoProject, rq.ai, now)))
               => tb[Len(tb)].error

C10_Witness ==
  \E r \in Procs :
    /\ req[r].kind = "team" /\ req[r].pc = "done" /\ req[r].resp.status = 200
    /\ Len(req[r].teamBurnout) = 2
    /\ req[r].teamBurnout[1].error
    /\ ~req[r].teamBurnout[2].error /\ req[r].teamBurnout[2].id # 0
    /\ req[r].resp.summary.members[1].userId = req[r].teamBurnout[2].userId

\* C19: the burnout model loop calls a candidate that failed on quota
\* again, up to 2 more times, before it goes on to the next candidate: as
\* long as the candidate called last failed on quota and has had fewer than
\* 3 calls, the loop is still at that candidate.
C19_QuotaRetriedInPlace ==
  \A r \in Procs :
    LET rq == req[r]
        n == Len(rq.invoked)
    IN (n > 0 /\ rq.lastOut = "quota"
          /\ Cardinality({i \in 1..n : rq.invoked[i] = rq.invoked[n]}) < 3)
       => rq.pc = "model" /\ rq.k = rq.invoked[n]

C12_SummaryStatistics ==
  \A r \in Procs :
    LET rq == req[r]
        sm == rq.resp.summary
        ms == sm.members
        n == Len(ms)
    IN (rq.kind = "team" /\ rq.pc = "done" /\ TeamsOf(rq.managerId) # << >>)
       => /\ sm.teamSize = Cardinality(MemberSet(rq.managerId))
          /\ n = sm.teamSize
          /\ \A i \in 1..n : ms[i].score.kind = "number"
          /\ sm.averageScore.kind = "number"
          /\ 2 * n * sm.averageScore.num
               <= 2 * SeqSum([i \in 1..n |-> ms[i].score.num]) + n
          /\ 2 * n * sm.averageScore.num
               > 2 * SeqSum([i \in 1..n |-> ms[i].score.num]) - n
          /\ \A lv \in {"high", "medium", "low"} :
               sm[lv] = Cardinality({i \in 1..n : ms[i].riskLevel = lv})
          /\ \A i \in 1..(n - 1) : ms[i].score.num >= ms[i + 1].score.num

\* a score as the BurnoutScore entity has it: an integer within 0..100
IsScore(v) == v.kind = "number" /\ v.num \in 0..100

\* C21: a single-user request whose model answered with JSON never ends in
\* an error: it answers 200 with one new record, and the score of that
\* record is within 0..100 (the model's score when it fits the schema,
\* the fallback score when it does not).
C21_SchemaMismatchFallsBack ==
  \A r \in Procs :
    LET rq == req[r]
    IN (rq.kind = "score" /\ rq.pc = "done" /\ rq.lastOut = "json")
       => /\ rq.resp.status = 200
          /\ rq.created = << rq.resp.id >>
          /\ rq.resp.id \in DOMAIN scores
          /\ IsScore(scores[rq.resp.id].score)

\* C22: every record of the collection has an integer score within 0..100
\* and the riskLevel of that score: low below 40, medium from 40 to 69,
\* high from 70.
C22_RecordScoreAndRisk ==
  \A i \in DOMAIN scores :
    /\ IsScore(scores[i].score)
    /\ scores[i].riskLevel
         = (IF scores[i].score.num >= 70 THEN "high"
            ELSE IF scores[i].score.num >= 40 THEN "medium" ELSE "low")

\* C23: the factors of the record a request has created are the feature
\* vector computed for that request.
C23_FactorsAreFeatureVector ==
  \A r \in Procs :
    LET rq == req[r]
    IN (rq.kind = "score" /\ rq.pc = "done" /\ rq.created # << >>)
       => scores[rq.created[1]].factors
            = [commitsCount |-> Num(rq.fv.commitsCount),
               tasksInProgress |-> Num(rq.fv.tasksInProgress),
               completedTasks |-> Num(rq.fv.completedTasks),
               overdueTasks |-> Num(rq.fv.overdueTasks),
               pullRequestsCount |-> Num(rq.fv.pullRequestsCount)]

\* C24: a lookup that serves a request from a stored record serves it from
\* a fresh record of the request's user and of the request's project (of
\* no project when the request names none; the lookup of a team member
\* names none).
C24_CacheKeyedOnProject ==
  [][\A r \in Procs :
       LET rq == req[r]
           nx == req'[r]
           n == Len(rq.teamBurnout)
           served ==
             IF rq.kind = "score"
             THEN IF nx.pc = "done" /\ nx.created = << >> THEN nx.resp.id ELSE 0
             ELSE IF Len(nx.teamBurnout) = n + 1 THEN nx.teamBurnout[n + 1].id
                  ELSE 0
       IN (rq.pc = "lookup" /\ nx # rq /\ served # 0)
          => /\ scores[served].userId = rq.userId
             /\ scores[served].projectId = rq.projectId
             /\ Fresh(scores[served])]_vars

\* C27: in every team summary the three counts of riskDistribution add up
\* to teamSize, which is the number of entries of members, each entry has
\* a riskLevel of low, medium or high, and averageScore is an integer
\* within 0..100.
C27_SummaryWellFormed ==
  \A r \in Procs :
    LET rq == req[r]
        sm == rq.resp.summary
    IN (rq.kind = "team" /\ rq.pc = "done" /\ rq.resp.status = 200)
       => /\ sm.teamSize = Len(sm.members)
          /\ \A i \in DOMAIN sm.members :
               sm.members[i].riskLevel \in {"low", "medium", "high"}
          /\ sm.high + sm.medium + sm.low = sm.teamSize
          /\ IsScore(sm.averageScore)

\* C26: of two requests for one key sent one after the other, the second
\* unforced and sent while the record the first one returned is fresh,
\* the second creates no record: requests in sequence leave at most one
\* record of a key in a freshness window.
C26_SequentialNeverDuplicates ==
  \A r \in Procs :
    LET rq == req[r]
    IN (/\ rq.kind = "score" /\ rq.pc = "done" /\ ~rq.force
        /\ rq.prevId # 0 /\ Fresh(scores[rq.prevId]))
       => rq.created = << >>

(***************************************************************************)
(* SpecConcurrent: two requests of the burnout routes in flight at once.   *)
(* Each await of a handler is a point where the other request can run, so  *)
(* the steps of the two requests interleave freely.  One of the two is a   *)
(* single-user request, the other a single-user or a team request.         *)
(***************************************************************************)
InitConcurrent ==
  /\ now = 0
  /\ strictQuery \in BOOLEAN
  /\ scores = << >>
  /\ githubActivity = GithubFixture
  /\ tasks = TaskFixture
  /\ req = [r \in Procs |-> IdleReq]
  /\ sreq = IdleSort
  /\ probe = NoProbe
  /\ tz = 0
  /\ hreq = IdleHours
  /\ tres = NoTaskResp
  /\ notifications = NotificationFixture
  /\ nres = NoNotifResp

NextConcurrent ==
  \E r \in Procs :
    \/ StartScore(r)
    \/ r \in Sequential /\ StartTeam(r)
    \/ Lookup(r)
    \/ Features(r)
    \/ CallModel(r)
    \/ Fallback(r)

SpecConcurrent == InitConcurrent /\ [][NextConcurrent]_vars

\* a step leaves every stored record as it is and adds at most one
AppendOnly(old, new) ==
  /\ Len(new) \in {Len(old), Len(old) + 1}
  /\ \A i \in DOMAIN old : new[i] = old[i]

\* the records a request has created are of distinct users, and a
\* single-user request has created at most one
OnePerScoredUser(sc, rq) ==
  /\ \A i, j \in DOMAIN rq.created :
       i # j => sc[rq.created[i]].userId # sc[rq.created[j]].userId
  /\ rq.kind = "score" => Len(rq.created) <= 1

\* whatever record a request returns is a stored record of the user it
\* was asked for
ReturnsOwnRecords(sc, rq) ==
  /\ (rq.kind = "score" /\ rq.resp.id # 0)
       => /\ rq.resp.id \in DOMAIN sc
          /\ sc[rq.resp.id].userId = rq.userId
  /\ \A i \in DOMAIN rq.teamBurnout :
       LET e == rq.teamBurnout[i]
       IN e.id # 0 => e.id \in DOMAIN sc /\ sc[e.id].userId = e.userId

\* a finished request has returned a record for every user it scored
ReturnsARecord(rq) ==
  /\ (rq.kind = "score" /\ rq.pc = "done" /\ rq.userId # NoUser)
       => rq.resp.status = 200 /\ rq.resp.id # 0
  /\ \A i \in DOMAIN rq.teamBurnout : rq.teamBurnout[i].id # 0

\* what holds of every interleaving of two requests: the collection only
\* grows, a request creates at most one record per scored user, and a
\* returned record belongs to the user it is returned for
ConcurrentAppendOnly ==
  [][/\ AppendOnly(scores, scores')
     /\ \A r \in Procs : /\ OnePerScoredUser(scores', req'[r])
                         /\ ReturnsOwnRecords(scores', req'[r])]_vars

\* C25: under every interleaving of two requests no step modifies or
\* deletes a stored record and the collection only grows, a request
\* creates at most one record per scored user, and every request returns
\* a record of the user it scores.
C25_ConcurrentRequestsOnlyAppend ==
  [][/\ AppendOnly(scores, scores')
     /\ \A r \in Procs : /\ OnePerScoredUser(scores', req'[r])
                         /\ ReturnsOwnRecords(scores', req'[r])
                         /\ ReturnsARecord(req'[r])]_vars

\* two unforced single-user requests for one key have each created a
\* record, both inside one freshness window
TwoRecordsOfOneKey ==
  /\ req[1].kind = "score" /\ req[2].kind = "score"
  /\ ~req[1].force /\ ~req[2].force
  /\ req[1].userId = req[2].userId /\ req[1].projectId = req[2].projectId
  /\ Len(req[1].created) = 1 /\ Len(req[2].created) = 1
  /\ Fresh(scores[req[1].created[1]]) /\ Fresh(scores[req[2].created[1]])

\* the duplicate of an interleaving is reachable
DuplicateNeverCreated == ~TwoRecordsOfOneKey

(***************************************************************************)
(* SpecScorer: the fallback scorer on its own, over every feature vector   *)
(* within the bounds.                                                      *)
(***************************************************************************)
FeatureVectors ==
  [commitsCount : 0..MaxCommits, tasksInProgress : 0..MaxOpen,
   completedTasks : 0..MaxCompleted, overdueTasks : 0..MaxOverdue,
   pullRequestsCount : {0}]

ScoreProbe ==
  /\ ~probe.done
  /\ \E fv \in FeatureVectors :
       probe' = [done |-> TRUE, fv |-> fv, result |-> FallbackOf(fv)]
  /\ UNCHANGED <<now, strictQuery, scores, githubActivity, tasks, req, sreq, tz, hreq, tres, notifications, nres>>

InitScorer ==
  /\ now = 0
  /\ strictQuery = FALSE
  /\ scores = << >>
  /\ githubActivity = {}
  /\ tasks = << >>
  /\ req = [r \in Procs |-> IdleReq]
  /\ sreq = IdleSort
  /\ probe = NoProbe
  /\ tz = 0
  /\ hreq = IdleHours
  /\ tres = NoTaskResp
  /\ notifications = NotificationFixture
  /\ nres = NoNotifResp

NextScorer == ScoreProbe

SpecScorer == InitScorer /\ [][NextScorer]_vars

\* C6: for every feature vector the fallback score is within 0..100 and
\* the riskLevel is 'high' exactly from 70, 'medium' exactly within 40..69
\* and 'low' exactly below 40.
C6_FallbackScoreAndRisk ==
  probe.done
  => LET sc == probe.result.score
         lv == probe.result.riskLevel
     IN /\ sc.kind = "number"
        /\ sc.num \in 0..100
        /\ lv \in {"low", "medium", "high"}
        /\ lv = "high" <=> sc.num >= 70
        /\ lv = "medium" <=> (sc.num >= 40 /\ sc.num <= 69)
        /\ lv = "low" <=> sc.num < 40

C6_Witness ==
  /\ probe.done
  /\ probe.result.score = Num(70)
  /\ probe.result.riskLevel = "high"
  /\ probe.fv.commitsCount = MaxCommits

\* C17: the fallback score is the sum, capped at 100, of a term of the
\* commits (over 50: 30, over 30: 20, over 15: 10), of the tasks in
\* progress (over 8: 35, over 5: 25, over 3: 15), of the overdue tasks
\* (over 5: 25, over 2: 15) and of the completed tasks (over 20: 10).
C17_FallbackScoreTerms ==
  probe.done
  => LET fv == probe.fv
         band(v, lows, pts) ==
           IF v > lows[1] THEN pts[1]
           ELSE IF Len(lows) > 1 /\ v > lows[2] THEN pts[2]
           ELSE IF Len(lows) > 2 /\ v > lows[3] THEN pts[3]
           ELSE 0
         sum == band(fv.commitsCount, << 50, 30, 15 >>, << 30, 20, 10 >>)
                + band(fv.tasksInProgress, << 8, 5, 3 >>, << 35, 25, 15 >>)
                + band(fv.overdueTasks, << 5, 2 >>, << 25, 15 >>)
                + band(fv.completedTasks, << 20 >>, << 10 >>)
     IN probe.result.score = Num(IF sum > 100 THEN 100 ELSE sum)

C17_Witness ==
  /\ probe.done
  /\ probe.fv.commitsCount = 50 /\ probe.fv.tasksInProgress = 8
  /\ probe.fv.overdueTasks = 5 /\ probe.fv.completedTasks = 20
  /\ probe.result.score = Num(60)

(***************************************************************************)
(* SpecSort: smart-sort over every small task collection of user u1.       *)
(***************************************************************************)
SortTasks ==
  [assignedTo : {"u1"}, projectId : {"p1"},
   status : {"to-do", "in-progress"},
   priority : {"high", "medium", "low"},
   dueDate : {NoDate, SortNow - 60, SortNow + 90},
   createdAt : {0}, startedAt : {NoDate}, completedAt : {NoDate}]
  \cup {Task("u1", "p1", "done", "low", NoDate, 0)}

InitSort ==
  /\ now = SortNow
  /\ strictQuery = FALSE
  /\ scores = << >>
  /\ githubActivity = {}
  /\ \E n \in 0..MaxSortTasks :
       \E ts \in [1..n -> SortTasks] :
         tasks = [i \in 1..n |-> [ts[i] EXCEPT !.createdAt = i]]
  /\ req = [r \in Procs |-> IdleReq]
  /\ sreq = IdleSort
  /\ probe = NoProbe
  /\ tz = 0
  /\ hreq = IdleHours
  /\ tres = NoTaskResp
  /\ notifications = NotificationFixture
  /\ nres = NoNotifResp

NextSort == StartSort \/ GeminiCall \/ FinishSort

SpecSort == InitSort /\ [][NextSort]_vars

IsPermutation(a, n) ==
  /\ Len(a) = n
  /\ \A v \in 0..(n - 1) : \E i \in DOMAIN a : a[i] = v

\* C4: smart-sort for a user with open tasks, all of whose model calls
\* failed, answers 200 with the fallback ordering of those tasks.
C4_SortSurvivesOutage ==
  (sreq.pc = "done" /\ sreq.base # << >> /\ sreq.aiKind = "none")
  => /\ sreq.resp.status = 200
     /\ sreq.resp.sortedTaskIds = TaskIds(FallbackIndices(sreq.base), sreq.base)

\* C5: smart-sort that got a text from the model answers 200; with the
\* model's order when sortedIndices is a permutation of 0..N-1, with the
\* fallback order otherwise.
C5_OnlyPermutationsUsed ==
  (sreq.pc = "done" /\ sreq.aiKind # "none")
  => /\ sreq.resp.status = 200
     /\ IF sreq.aiKind = "array" /\ IsPermutation(sreq.aiIndices, Len(sreq.base))
        THEN sreq.resp.sortedTaskIds = TaskIds(sreq.aiIndices, sreq.base)
        ELSE /\ sreq.resp.reasoning = "fallback"
             /\ sreq.resp.sortedTaskIds
                  = TaskIds(FallbackIndices(sreq.base), sreq.base)

(***************************************************************************)
(* SpecPrioritize: smart-sort requests against one task collection.  The   *)
(* four open tasks of u1 are stored in another order than they were        *)
(* created; u2 has no open task.                                           *)
(***************************************************************************)
SortFixture ==
  << Task("u1", "p1", "to-do", "medium", SortNow + 90, 30),
     Task("u1", "p1", "in-progress", "high", SortNow - 60, 10),
     Task("u1", "p2", "done", "low", 0, 5),
     Task("u1", "p2", "to-do", "low", NoDate, 40),
     Task("u1", "p1", "to-do", "high", SortNow + 30, 20),
     Task("u2", "p1", "done", "high", NoDate, 15) >>

InitPrioritize ==
  /\ now = SortNow
  /\ strictQuery = FALSE
  /\ scores = << >>
  /\ githubActivity = GithubFixture
  /\ tasks = SortFixture
  /\ req = [r \in Procs |-> IdleReq]
  /\ sreq = IdleSort
  /\ probe = NoProbe
  /\ tz = 0
  /\ hreq = IdleHours
  /\ tres = NoTaskResp
  /\ notifications = NotificationFixture
  /\ nres = NoNotifResp

SpecPrioritize == InitPrioritize /\ [][NextSort]_vars

\* C13: smart-sort for a user without open tasks calls no model and
\* answers 200 with sortedTaskIds = [] and tasksAnalyzed = 0.
C13_NoOpenTasks ==
  (sreq.pc = "done" /\ sreq.userId # NoUser /\ OpenTasksOf(sreq.userId) = << >>)
  => /\ sreq.calls = << >>
     /\ sreq.resp.status = 200
     /\ sreq.resp.sortedTaskIds = << >>
     /\ sreq.resp.tasksAnalyzed = Num(0)

\* the open tasks of u, oldest first: every open task of u once, no other
\* task, createdAt ascending
IsBaseOrder(base, u) ==
  /\ \A i \in DOMAIN tasks :
       (tasks[i].assignedTo = u /\ tasks[i].status \in {"to-do", "in-progress"})
       <=> \E j \in DOMAIN base : base[j] = i
  /\ \A j, k \in DOMAIN base :
       j < k => base[j] # base[k] /\ tasks[base[j]].createdAt <= tasks[base[k]].createdAt

\* C14: when the model answers with a permutation p of 0..N-1, the answer
\* is 200 with sortedTaskIds[i] = the id of the task at p[i] of the N open
\* tasks taken oldest first, and tasksAnalyzed = N.
C14_PermutationApplied ==
  LET n == Len(sreq.base)
  IN (sreq.pc = "done" /\ sreq.aiKind = "array"
        /\ IsPermutation(sreq.aiIndices, n))
     => /\ IsBaseOrder(sreq.base, sreq.userId)
        /\ sreq.resp.status = 200
        /\ Len(sreq.resp.sortedTaskIds) = n
        /\ \A i \in 1..n :
             sreq.resp.sortedTaskIds[i] = sreq.base[sreq.aiIndices[i] + 1]
        /\ sreq.resp.tasksAnalyzed = Num(n)

C14_Witness ==
  /\ sreq.pc = "done" /\ sreq.resp.status = 200
  /\ sreq.aiIndices = << 2, 0, 3, 1 >>
  /\ sreq.resp.sortedTaskIds = << 1, 2, 4, 5 >>

\* the number of calls made to the model of index m
CallsOf(m) == Cardinality({i \in DOMAIN sreq.calls : sreq.calls[i] = m})

\* C18: getGeminiResponse calls the models in list order, a model at most
\* 3 times: again only after a quota failure, after a wait of 2 s and then
\* of 4 s; after another failure, or the third failure, it goes on to the
\* next model with the retry count at 0.  It ends with the first text or,
\* all models having failed within 3 * N calls, with the throw.
C18_QuotaRetries ==
  LET n == Len(sreq.calls)
      N == Len(GEMINI_MODELS)
      failed == sreq.aiKind = "none" /\ n > 0
  IN /\ \A i \in 1..(n - 1) : sreq.calls[i] <= sreq.calls[i + 1]
     /\ \A m \in 0..(N - 1) : CallsOf(m) <= 3
     /\ n <= 3 * N
     /\ \A i \in DOMAIN sreq.waits : sreq.waits[i] \in {2000, 4000}
     /\ sreq.retryCount \in 0..2
     /\ (failed /\ sreq.lastErr = "quota" /\ CallsOf(sreq.calls[n]) < 3)
          => /\ sreq.pc = "gemini"
             /\ sreq.modelIndex = sreq.calls[n]
             /\ sreq.retryCount = CallsOf(sreq.calls[n])
             /\ sreq.waits[Len(sreq.waits)] = 2000 * sreq.retryCount
     /\ (failed /\ (sreq.lastErr = "error" \/ CallsOf(sreq.calls[n]) = 3))
          => /\ sreq.modelIndex = sreq.calls[n] + 1
             /\ sreq.retryCount = 0
             /\ sreq.modelIndex >= N
                  => sreq.pc = "done" /\ sreq.resp.status = 500
     /\ sreq.aiKind # "none"
          => sreq.pc = "done" /\ sreq.calls[n] = sreq.modelIndex

C18_Witness ==
  /\ sreq.pc = "done" /\ sreq.resp.status = 500
  /\ sreq.calls = << 0, 0, 0 >> /\ sreq.waits = << 2000, 4000 >>
  /\ sreq.lastErr = "quota"

(***************************************************************************)
(* SpecRequests: one single-user score request and one smart-sort request  *)
(* served side by side, from the arrival of each to its response.          *)
(***************************************************************************)
InitRequests ==
  /\ now = SortNow
  /\ strictQuery = FALSE
  /\ scores = << >>
  /\ githubActivity = GithubFixture
  /\ tasks = SortFixture
  /\ req = [r \in Procs |-> IdleReq]
  /\ sreq = IdleSort
  /\ probe = NoProbe
  /\ tz = 0
  /\ hreq = IdleHours
  /\ tres = NoTaskResp
  /\ notifications = NotificationFixture
  /\ nres = NoNotifResp

NextRequests ==
  \/ StartSort
  \/ GeminiCall
  \/ \E r \in Sequential :
       \/ StartScore(r)
       \/ Lookup(r)
       \/ Features(r)
       \/ CallModel(r)
       \/ Fallback(r)

SpecRequests == InitRequests /\ [][NextRequests]_vars

\* C15: a score request without userId and a smart-sort request without
\* userId are answered 400, and nothing was read, no model was called and
\* no record was created for them.
C15_MissingUserIdRejected ==
  /\ \A r \in Procs :
       (req[r].kind = "score" /\ req[r].userId = NoUser)
       => /\ req[r].pc = "done"
          /\ req[r].resp.status = 400
          /\ req[r].lookups = << >>
          /\ req[r].computed = << >>
          /\ req[r].invoked = << >>
          /\ req[r].created = << >>
  /\ (sreq.pc # "idle" /\ sreq.userId = NoUser)
       => /\ sreq.pc = "done"
          /\ sreq.resp.status = 400
          /\ sreq.base = << >>
          /\ sreq.calls = << >>
  /\ (\A r \in Procs : req[r].userId = NoUser) => scores = << >>

C15_Witness ==
  /\ sreq.pc = "done" /\ sreq.userId = NoUser /\ sreq.resp.status = 400
  /\ \E r \in Procs :
       /\ req[r].kind = "score" /\ req[r].userId = NoUser
       /\ req[r].pc = "done" /\ req[r].resp.status = 400
  /\ scores = << >>

\* C29: once a smart-sort request and an unscoped single-user score
\* request for one user have both read the tasks, each open task is flagged
\* overdue by the prioritizer exactly when the aggregator classifies it as
\* overdue, which is exactly when it has a dueDate earlier than now; the
\* aggregator's count of overdue tasks is the number of flagged feature
\* records, and a flagged record has hoursUntilDue = 0.
C29_OverdueAgreement ==
  \A r \in Procs :
    LET rq == req[r]
        flagged == {k \in DOMAIN sreq.base : TaskForAI(tasks[sreq.base[k]]).isOverdue}
    IN (/\ sreq.pc # "idle" /\ sreq.userId # NoUser
        /\ rq.kind = "score" /\ rq.computed # << >>
        /\ rq.userId = sreq.userId /\ rq.projectId = NoProject)
       => /\ \A k \in DOMAIN sreq.base :
               LET t == tasks[sreq.base[k]]
               IN /\ TaskForAI(t).isOverdue = OverdueForScore(t)
                  /\ TaskForAI(t).isOverdue = (t.dueDate # NoDate /\ t.dueDate < now)
                  /\ TaskForAI(t).isOverdue => TaskForAI(t).hoursUntilDue = 0
          /\ rq.fv.overdueTasks = Cardinality(flagged)

\* the part that holds: a flagged feature record has hoursUntilDue = 0
OverdueHasNoHoursLeft ==
  \A k \in DOMAIN sreq.base :
    LET f == TaskForAI(tasks[sreq.base[k]])
    IN f.isOverdue => f.hoursUntilDue = 0

(***************************************************************************)
(* SpecHours: the hours route over every small collection of tasks of the  *)
(* members of m1's teams (u2 is in both), on a server west of, at and east *)
(* of UTC.  It is 10:00 UTC of day 40.                                     *)
(***************************************************************************)
HoursNow == 40 * 1440 + 600

ServerOffsets == {-300, 0, 120}

\* completed half an hour ago; at 23:00 UTC of the day before; 27 days ago;
\* 28 days ago less an hour; 29 days ago
CompletionTimes ==
  {HoursNow - 30, 40 * 1440 - 60, HoursNow - 27 * 1440,
   HoursNow - 28 * 1440 + 60, HoursNow - 29 * 1440}

HoursTasks ==
  {[Task(u, "p1", "done", "low", NoDate, 0)
      EXCEPT !.completedAt = c, !.startedAt = IF d = 0 THEN NoDate ELSE c - d] :
     u \in Users, c \in CompletionTimes, d \in {0, 20, 125}}
  \cup {[Task(u, "p1", "in-progress", "low", NoDate, 0)
           EXCEPT !.startedAt = HoursNow - 90] : u \in Users}

InitHours ==
  /\ now = HoursNow
  /\ strictQuery = FALSE
  /\ scores = << >>
  /\ githubActivity = {}
  /\ \E n \in 0..MaxHoursTasks : tasks \in [1..n -> HoursTasks]
  /\ req = [r \in Procs |-> IdleReq]
  /\ sreq = IdleSort
  /\ probe = NoProbe
  /\ tz \in ServerOffsets
  /\ hreq = IdleHours
  /\ tres = NoTaskResp
  /\ notifications = NotificationFixture
  /\ nres = NoNotifResp

NextHours == TeamHours \/ FinishHours

SpecHours == InitHours /\ [][NextHours]_vars

\* the calendar day of the instant t where the server is
LocalDay(t) == (t + tz) \div 1440

\* C16: the hours route answers with 28 buckets, today and the 27 days
\* before it, oldest first; the hours of a bucket are the hours between
\* startedAt and completedAt of the done tasks of the team's members that
\* have both and were completed on that day, each task counted once; a
\* day without such a task has 0 hours.
C16_DailyHoursBuckets ==
  LET dh == hreq.resp.dailyHours
      counted(day) ==
        {i \in DOMAIN tasks :
           /\ tasks[i].assignedTo \in MemberSet(hreq.managerId)
           /\ tasks[i].status = "done"
           /\ tasks[i].startedAt # NoDate /\ tasks[i].completedAt # NoDate
           /\ LocalDay(tasks[i].completedAt) = day}
  IN (hreq.pc = "done" /\ hreq.resp.status = 200)
     => /\ Len(dh) = 28
        /\ \A j \in 1..28 :
             /\ dh[j].date = LocalDay(now) - 28 + j
             /\ dh[j].hours
                  = RoundDiv(SeqSum([i \in DOMAIN tasks |->
                                       IF i \in counted(dh[j].date)
                                       THEN tasks[i].completedAt - tasks[i].startedAt
                                       ELSE 0]), 6)

(***************************************************************************)
(* SpecOrder: the fallback sort of smart-sort on its own, over every small *)
(* collection of open tasks of u1, the tasks created in the order they are *)
(* stored in.                                                              *)
(***************************************************************************)
OrderTasks ==
  [assignedTo : {"u1"}, projectId : {"p1"},
   status : {"to-do", "in-progress"},
   priority : {"high", "medium", "low"},
   dueDate : {NoDate, SortNow - 60, SortNow + 30, SortNow + 90},
   createdAt : {0}, startedAt : {NoDate}, completedAt : {NoDate}]

NoOrder == [done |-> FALSE, base |-> << >>, order |-> << >>]

InitOrder ==
  /\ now = SortNow
  /\ strictQuery = FALSE
  /\ scores = << >>
  /\ githubActivity = {}
  /\ \E n \in 0..MaxOrderTasks :
       \E ts \in [1..n -> OrderTasks] :
         tasks = [i \in 1..n |-> [ts[i] EXCEPT !.createdAt = i]]
  /\ req = [r \in Procs |-> IdleReq]
  /\ sreq = IdleSort
  /\ probe = NoOrder
  /\ tz = 0
  /\ hreq = IdleHours
  /\ tres = NoTaskResp
  /\ notifications = NotificationFixture
  /\ nres = NoNotifResp

\* the find of lines 391-397 and the sort of lines 481-502
OrderProbe ==
  /\ ~probe.done
  /\ probe' = [done |-> TRUE, base |-> OpenTasksOf("u1"),
               order |-> FallbackIndices(OpenTasksOf("u1"))]
  /\ UNCHANGED <<now, strictQuery, scores, githubActivity, tasks, req, sreq, tz, hreq, tres, notifications, nres>>

NextOrder == OrderProbe

SpecOrder == InitOrder /\ [][NextOrder]_vars

InitTasks ==
  /\ now = 0
  /\ strictQuery = FALSE
  /\ scores = << >>
  /\ githubActivity = GithubFixture
  /\ tasks = << >>
  /\ req = [r \in Procs |-> IdleReq]
  /\ sreq = IdleSort
  /\ probe = NoProbe
  /\ tz = 0
  /\ hreq = IdleHours
  /\ tres = NoTaskResp
  /\ notifications = << >>
  /\ nres = NoNotifResp

NextTasks == CreateTask \/ PatchStatus \/ PutTask \/ Tick

SpecTasks == InitTasks /\ [][NextTasks]_vars

\* a done task has its completion time, and one that was started is
\* completed no earlier than it was started, with hours that are not
\* negative
DoneTaskTimed(t) ==
  t.status = "done"
    => /\ t.completedAt # NoDate
       /\ t.startedAt # NoDate
            => /\ t.completedAt >= t.startedAt
               /\ t.realHours.kind = "number"
               /\ t.realHours.num >= 0

\* C28: after every task operation each done task has completedAt, and a
\* started one has completedAt >= startedAt and realHours >= 0; a PATCH
\* whose status is none of to-do, todo, in-progress, done is answered 400
\* and changes no task.
C28_DoneTasksTimed ==
  [][/\ \A i \in DOMAIN tasks' : DoneTaskTimed(tasks'[i])
     /\ (tres'.op = "patch" /\ tres'.body \notin PatchAccepted)
          => tres'.status = 400 /\ tasks' = tasks]_vars

(***************************************************************************)
(* SpecNotifications: requests to the notification routes.                 *)
(***************************************************************************)
InitNotifications ==
  /\ now = 0
  /\ strictQuery = FALSE
  /\ scores = << >>
  /\ githubActivity = GithubFixture
  /\ tasks = << >>
  /\ req = [r \in Procs |-> IdleReq]
  /\ sreq = IdleSort
  /\ probe = NoProbe
  /\ tz = 0
  /\ hreq = IdleHours
  /\ tres = NoTaskResp
  /\ notifications = NotificationFixture
  /\ nres = NoNotifResp

NextNotifications == MarkRead \/ DeleteRequest

SpecNotifications == InitNotifications /\ [][NextNotifications]_vars

\* C30: a DELETE /clear-read with a userId is handled by the clear-read
\* handler: it removes that user's read notifications and nothing else,
\* and answers 200 with their number; without userId it answers 400 and
\* removes nothing.
C30_ClearReadHandled ==
  [][(nres'.route = "DELETE" /\ nres'.seg = "clear-read" /\ nres' # nres)
       => LET u == nres'.userId
          IN IF u = NoUser
             THEN nres'.status = 400 /\ notifications' = notifications
             ELSE /\ nres'.handler = "clear-read"
                  /\ nres'.status = 200
                  /\ nres'.deletedCount = Cardinality(ReadOf(u))
                  /\ notifications' =
                       [i \in DOMAIN notifications |->
                          IF i \in ReadOf(u)
                          THEN [notifications[i] EXCEPT !.deleted = TRUE]
                          ELSE notifications[i]]]_vars

====
